---- MODULE Spec2Model ----
(***************************************************************************)
(* A model of axlearn/audio/frontend.py: the LogMelFrontend layer, its     *)
(* construction, forward / _to_logmel and output_shape, and the dtype      *)
(* helpers _fft_dtype and _cast_for_rfft.                                  *)
(*                                                                         *)
(* Tensors are abstracted to what the orchestration decides: their shape   *)
(* (number of frames, frame length, number of filters), their dtype, and   *)
(* for the masked output the IEEE class of each value (zero, finite        *)
(* non-zero, infinite, NaN).  The numeric primitives imported from         *)
(* axlearn.audio.frontend_utils and axlearn.common.config are not part of  *)
(* the file; they are modelled by their contract.                          *)
(***************************************************************************)
EXTENDS Integers, Sequences, FiniteSets

VARIABLES frontend, lastCall, result

vars == <<frontend, lastCall, result>>

\* ------------------------------------------------------------------ bounds

\* Longest waveform (seq_len) handed to forward / output_shape.
MaxSeqLen == 4
\* Largest frame_size_ms / hop_size_ms of a configuration.
MaxMs == 2

\* ------------------------------------------------------------ value domains

\* Optional values: None is the empty sequence, a present value v is <<v>>.
None == << >>
Some(v) == <<v>>

\* The jnp dtypes a frame tensor may carry.
Dtypes == {"bfloat16", "float16", "float32", "float64",
           "int8", "int16", "int32", "int64"}

\* IEEE classes of a value an upstream stage produces: finite, infinite
\* (log of a zero energy is -inf), NaN. A masked output may also be "zero".
Vals == {"fin", "inf", "nan"}

SampleRates == {1000, 2000}

SpectrogramFields == {"fft_size", "num_filters", "sample_rate", "mel_floor"}

\* The values a caller presets on the spectrogram config (all different from
\* what the frontend would derive).
CallerSpectrogram ==
    [fft_size |-> 64, num_filters |-> 3, sample_rate |-> 8000, mel_floor |-> 5]

\* The caller's spectrogram config: no field preset, one field preset (each
\* of the four), or all four preset.
SpectrogramConfigs ==
    { [k \in SpectrogramFields |->
          IF k \in S THEN Some(CallerSpectrogram[k]) ELSE None]
      : S \in {T \in SUBSET SpectrogramFields : Cardinality(T) \in {0, 1, 4}} }

\* LogMelFrontend.Config values. pre_emphasis / fft / output_transformation
\* are TRUE when a stage config is given and FALSE when the field is None.
Configs ==
    [output_dim : {1, 2},
     sample_rate : SampleRates,
     frame_size_ms : 1..MaxMs,
     hop_size_ms : 0..MaxMs,
     num_filters : {2},
     mel_floor : {1},
     pre_emphasis : BOOLEAN,
     fft : BOOLEAN,
     output_transformation : BOOLEAN,
     spectrogram : SpectrogramConfigs]

\* --------------------------------------------- collaborators (by contract)

\* ms_to_samples(ms, sample_rate): duration to samples, rounded to nearest.
ms_to_samples(ms, sample_rate) == (ms * sample_rate + 500) \div 1000

RECURSIVE PowerOf2AtLeast(_, _)
PowerOf2AtLeast(p, n) == IF p >= n THEN p ELSE PowerOf2AtLeast(2 * p, n)

\* next_power_of_2(n): the smallest power of two >= n.
next_power_of_2(n) == PowerOf2AtLeast(1, n)

\* maybe_set_config(cfg, **kwargs): fills the fields of cfg that are unset.
maybe_set_config(c, kwargs) ==
    [k \in DOMAIN c |->
        IF c[k] = None /\ k \in DOMAIN kwargs THEN Some(kwargs[k]) ELSE c[k]]

\* num_frames(seq_len, frame_size, hop_size): the frame-count arithmetic.
\* The division fails for hop_size = 0.
num_frames(seq_len, frame_size, hop_size) ==
    IF frame_size > seq_len THEN [err |-> "", n |-> 0]
    ELSE IF hop_size = 0 THEN [err |-> "ZeroDivisionError", n |-> 0]
    ELSE [err |-> "", n |-> 1 + (seq_len - frame_size) \div hop_size]

RECURSIVE FramesFrom(_, _, _, _)
FramesFrom(x, start, frame_size, hop_size) ==
    IF start + frame_size > Len(x) THEN << >>
    ELSE <<SubSeq(x, start + 1, start + frame_size)>>
         \o FramesFrom(x, start + hop_size, frame_size, hop_size)

\* frame(x, frame_size, hop_size): the full frames of x, hop_size apart.
frame(x, frame_size, hop_size) ==
    IF frame_size <= Len(x) /\ hop_size = 0
    THEN [err |-> "ZeroDivisionError", frames |-> << >>]
    ELSE [err |-> "", frames |-> FramesFrom(x, 0, frame_size, hop_size)]

SeqMax(s) == IF \E i \in 1..Len(s) : s[i] = 1 THEN 1 ELSE 0

\* frame_paddings(paddings, frame_size, hop_size): a frame is padded when any
\* of its samples is.
frame_paddings(paddings, frame_size, hop_size) ==
    LET f == frame(paddings, frame_size, hop_size).frames
    IN  [t \in 1..Len(f) |-> SeqMax(f[t])]

\* pre_emphasis(frames, coeff): y[t] = x[t] - coeff * x[t-1]; consumes the
\* leading sample of every frame.
pre_emphasis(frames) == [t \in 1..Len(frames) |-> Tail(frames[t])]

\* windowing(frames, window_type): elementwise, keeps shape and dtype.
windowing(frames) == frames

\* ------------------------------------------------------------ dtype helpers

\* Mutant: every 16-bit float, float16 included, maps to itself.
_fft_dtype_float16(input_dtype) ==
    IF input_dtype \in {"bfloat16", "float16", "float32", "float64"}
    THEN input_dtype
    ELSE IF input_dtype = "int16" THEN "bfloat16"
    ELSE IF input_dtype = "int32" THEN "float32"
    ELSE IF input_dtype = "int64" THEN "float64"
    ELSE "ValueError"

\* _fft_dtype(input_dtype): the compute dtype, or the error raised.
_fft_dtype(input_dtype) ==
    IF input_dtype \in {"bfloat16", "float32", "float64"} THEN input_dtype
    ELSE IF input_dtype = "int16" THEN "bfloat16"
    ELSE IF input_dtype = "int32" THEN "float32"
    ELSE IF input_dtype = "int64" THEN "float64"
    ELSE "ValueError"

\* Mutant: the cast is decided on the compute dtype of the dtype table.
_cast_for_rfft_compute(dtype) ==
    IF _fft_dtype(dtype) \in {"float32", "float64"}
    THEN _fft_dtype(dtype) ELSE "float32"

\* _cast_for_rfft(x): the dtype of the tensor handed to jnp.fft.rfft.
_cast_for_rfft(dtype) ==
    IF dtype \in {"float32", "float64"} THEN dtype ELSE "float32"

\* ------------------------------------------------------------- construction

\* BaseFrontend.__init__: the derived frame geometry.
BaseFrontend_init(cfg) ==
    [_frame_size |-> ms_to_samples(cfg.frame_size_ms, cfg.sample_rate),
     _hop_size |-> ms_to_samples(cfg.hop_size_ms, cfg.sample_rate)]

\* Mutant: the output_dim check is missing.
CheckOutputDimMissing(cfg) == ""

\* LogMelFrontend.__init__, the output_dim check: what it raises, if anything.
CheckOutputDim(cfg) == IF cfg.output_dim # 1 THEN "ValueError" ELSE ""

\* Mutant: fft_size is taken after the pre-emphasis increment of _frame_size.
InitFftSizeAfterIncrement(cfg, base) ==
    next_power_of_2(IF cfg.pre_emphasis THEN base._frame_size + 1
                    ELSE base._frame_size)

\* LogMelFrontend.__init__, fft_size = cfg.fft_size(self._frame_size): taken
\* while self._frame_size is still the nominal frame size.
InitFftSize(cfg, base) == next_power_of_2(base._frame_size)

\* Mutant: the frame size is not incremented for pre-emphasis.
InitFrameSizeNoIncrement(cfg, base) == base._frame_size

\* LogMelFrontend.__init__, the stored frame size: one more sample when a
\* pre-emphasis stage is configured.
InitFrameSize(cfg, base) ==
    IF cfg.pre_emphasis THEN base._frame_size + 1 ELSE base._frame_size

\* LogMelFrontend.__init__: the instance, or the error construction raises.
LogMelFrontend_init(cfg) ==
    LET base == BaseFrontend_init(cfg)
        fft_size == InitFftSize(cfg, base)
        spectrogram ==
            maybe_set_config(cfg.spectrogram,
                             [fft_size |-> fft_size,
                              num_filters |-> cfg.num_filters,
                              sample_rate |-> cfg.sample_rate,
                              mel_floor |-> cfg.mel_floor])
    IN  IF CheckOutputDim(cfg) # ""
        THEN [err |-> CheckOutputDim(cfg), self |-> None]
        ELSE [err |-> "",
              self |-> Some(
                [config |-> cfg,
                 _output_transformation |-> cfg.output_transformation,
                 _fft |-> IF cfg.fft THEN "custom" ELSE "rfft",
                 _fft_n |-> fft_size,
                 _spectrogram |-> spectrogram,
                 _frame_size |-> InitFrameSize(cfg, base),
                 _hop_size |-> base._hop_size,
                 _pre_emphasis |-> cfg.pre_emphasis])]

NoResult ==
    [err |-> "", trace |-> << >>, outputs |-> << >>, paddings |-> << >>,
     frame_lens |-> {}, fft_in |-> "", compute |-> "", shape |-> << >>]

\* ------------------------------------------------------------------ forward

\* The mask multiply `outputs * (1 - paddings)` on one value, in IEEE
\* arithmetic: x * 1 = x; x * 0 is 0 for finite x and NaN for inf and NaN.
MaskMul(v, padding) ==
    IF 1 - padding = 1 THEN v
    ELSE IF v \in {"inf", "nan"} THEN "nan" ELSE "zero"

\* Mutant: the compute dtype is determined first, and an unsupported dtype
\* raises before the transform is invoked.
SpectralCallDtypeFirst(self, dtype) ==
    IF _fft_dtype(dtype) = "ValueError"
    THEN [trace |-> <<"_fft_dtype">>, fft_in |-> "", compute |-> "ValueError"]
    ELSE [trace |-> <<"_fft_dtype", "fft">>,
          fft_in |-> IF self._fft = "rfft" THEN _cast_for_rfft(dtype) ELSE dtype,
          compute |-> _fft_dtype(dtype)]

\* The call self._spectrogram(self._fft(frames), dtype=_fft_dtype(frames.dtype))
\* up to the point where the spectrogram stage is entered. Python evaluates
\* the arguments left to right: self._fft(frames) runs first (the default
\* transform is rfft(_cast_for_rfft(x)), a configured one gets x as it is),
\* then _fft_dtype(frames.dtype).
SpectralCall(self, dtype) ==
    [trace |-> <<"fft", "_fft_dtype">>,
     fft_in |-> IF self._fft = "rfft" THEN _cast_for_rfft(dtype) ELSE dtype,
     compute |-> _fft_dtype(dtype)]

\* LogMelFrontend._to_logmel. dtype is the dtype of the frame tensor; up[t]
\* is what the spectrogram stage and the output transformation produced for
\* frame t.
_to_logmel(self, frames, frames_paddings, dtype, up) ==
    LET frames1 == IF self._pre_emphasis THEN pre_emphasis(frames) ELSE frames
        frames2 == windowing(frames1)
        call == SpectralCall(self, dtype)
        head == (IF self._pre_emphasis THEN <<"pre_emphasis">> ELSE << >>)
                \o <<"windowing">> \o call.trace
        F == self._spectrogram.num_filters[1]
        lens == {Len(frames2[t]) : t \in 1..Len(frames2)}
    IN  IF call.compute = "ValueError"
        THEN [NoResult EXCEPT !.err = "ValueError", !.trace = head,
                              !.frame_lens = lens, !.fft_in = call.fft_in]
        ELSE [NoResult EXCEPT
                !.trace = head \o <<"spectrogram">>
                          \o (IF self._output_transformation
                              THEN <<"output_transformation">> ELSE << >>)
                          \o <<"mask">>,
                !.outputs = [t \in 1..Len(frames2) |->
                               [f \in 1..F |-> MaskMul(up[t], frames_paddings[t])]],
                !.paddings = frames_paddings,
                !.frame_lens = lens,
                !.fft_in = call.fft_in,
                !.compute = call.compute]

\* Mutant: the call also changes the stored frame size.
forward_mutating(self, inputs, paddings, dtype, up) ==
    LET fr == frame(inputs, self._frame_size, self._hop_size)
        out_paddings == frame_paddings(paddings, self._frame_size, self._hop_size)
        r == _to_logmel(self, fr.frames, out_paddings, dtype, up)
    IN  [self |-> [self EXCEPT !._frame_size = @ + 1],
         ret |-> IF fr.err # ""
                 THEN [NoResult EXCEPT !.err = fr.err, !.trace = <<"frame">>]
                 ELSE [r EXCEPT !.trace = <<"frame", "frame_paddings">> \o @]]

\* LogMelFrontend.forward: the instance after the call and what it returns.
forward(self, inputs, paddings, dtype, up) ==
    LET fr == frame(inputs, self._frame_size, self._hop_size)
        out_paddings == frame_paddings(paddings, self._frame_size, self._hop_size)
        r == _to_logmel(self, fr.frames, out_paddings, dtype, up)
    IN  [self |-> self,
         ret |-> IF fr.err # ""
                 THEN [NoResult EXCEPT !.err = fr.err, !.trace = <<"frame">>]
                 ELSE [r EXCEPT !.trace = <<"frame", "frame_paddings">> \o @]]

\* Mutant: the frame count is taken with the nominal frame size, without the
\* pre-emphasis sample.
output_shape_nominal(self, input_shape) ==
    LET cfg == self.config
        seq_len == input_shape[2]
        nf == num_frames(seq_len[1],
                         ms_to_samples(cfg.frame_size_ms, cfg.sample_rate),
                         self._hop_size)
    IN  [self |-> self,
         ret |-> IF Len(input_shape) # 2
                 THEN [NoResult EXCEPT !.err = "ValueError"]
                 ELSE IF seq_len # None /\ nf.err # ""
                 THEN [NoResult EXCEPT !.err = nf.err]
                 ELSE [NoResult EXCEPT !.shape =
                         <<input_shape[1],
                           IF seq_len # None THEN Some(nf.n) ELSE None,
                           Some(cfg.num_filters), Some(cfg.output_dim)>>]]

\* LogMelFrontend.output_shape.
output_shape(self, input_shape) ==
    LET cfg == self.config
        seq_len == input_shape[2]
        nf == num_frames(seq_len[1], self._frame_size, self._hop_size)
    IN  [self |-> self,
         ret |-> IF Len(input_shape) # 2
                 THEN [NoResult EXCEPT !.err = "ValueError"]
                 ELSE IF seq_len # None /\ nf.err # ""
                 THEN [NoResult EXCEPT !.err = nf.err]
                 ELSE [NoResult EXCEPT !.shape =
                         <<input_shape[1],
                           IF seq_len # None THEN Some(nf.n) ELSE None,
                           Some(cfg.num_filters), Some(cfg.output_dim)>>]]

\* ------------------------------------------------------------ state machine

\* A waveform of seq_len samples (sample i carries the value i) and a
\* padding mask whose last num_pad positions are padded.
Waveform(seq_len) == [i \in 1..seq_len |-> i]
SamplePadding(seq_len, num_pad) ==
    [i \in 1..seq_len |-> IF i > seq_len - num_pad THEN 1 ELSE 0]

OptLens == {None} \cup {Some(n) : n \in 0..MaxSeqLen}
InputShapes ==
    {<<Some(1)>>}
    \cup {<<Some(1), s>> : s \in OptLens}
    \cup {<<Some(1), s, Some(1)>> : s \in OptLens}

Init ==
    /\ frontend = None
    /\ lastCall = [op |-> "none"]
    /\ result = NoResult

\* LogMelFrontend.Config.instantiate(): one construction per frontend.
Construct ==
    /\ lastCall.op = "none"
    /\ \E cfg \in Configs :
         LET r == LogMelFrontend_init(cfg)
         IN  /\ frontend' = r.self
             /\ lastCall' = [op |-> "__init__", cfg |-> cfg]
             /\ result' = [NoResult EXCEPT !.err = r.err]

\* A call of forward on the constructed frontend.
Forward ==
    /\ frontend # None
    /\ lastCall.op = "idle"
    /\ \E seq_len \in 0..MaxSeqLen, dtype \in Dtypes :
       \E num_pad \in 0..seq_len :
         LET self == frontend[1]
             n == Len(frame(Waveform(seq_len), self._frame_size,
                            self._hop_size).frames)
         IN  \E up \in [1..n -> Vals] :
               LET r == forward(self, Waveform(seq_len),
                                SamplePadding(seq_len, num_pad), dtype, up)
               IN  /\ frontend' = Some(r.self)
                   /\ lastCall' = [op |-> "forward", seq_len |-> seq_len,
                                   num_pad |-> num_pad, dtype |-> dtype]
                   /\ result' = r.ret

\* A call of output_shape on the constructed frontend.
OutputShape ==
    /\ frontend # None
    /\ lastCall.op = "idle"
    /\ \E input_shape \in InputShapes :
         LET r == output_shape(frontend[1], input_shape)
         IN  /\ frontend' = Some(r.self)
             /\ lastCall' = [op |-> "output_shape", input_shape |-> input_shape]
             /\ result' = r.ret

\* The caller takes what the call returned (or catches what it raised); the
\* frontend is ready for its next call.
Return ==
    /\ lastCall.op \in {"__init__", "forward", "output_shape"}
    /\ lastCall' = [op |-> "idle"]
    /\ result' = NoResult
    /\ UNCHANGED frontend

Next == Construct \/ Forward \/ OutputShape \/ Return

Spec == Init /\ [][Next]_vars
\* ------------------------------------------------------------------ claims

Self == frontend[1]
Nominal(cfg) == ms_to_samples(cfg.frame_size_ms, cfg.sample_rate)
ForwardDone == lastCall.op = "forward"
\* The forward call got past framing, so the spectral stages ran.
ForwardFramed == ForwardDone /\ result.err # "ZeroDivisionError"
ForwardOk == ForwardDone /\ result.err = ""

\* C1: in the result of forward, every feature outputs[b, t, f, 0] at a frame
\* position the returned paddings mark padded is exactly zero, whatever the
\* upstream stages produced there.
C1_PaddedFeaturesZero ==
    ForwardOk =>
        \A t \in 1..Len(result.outputs) :
            result.paddings[t] = 1 =>
                \A f \in 1..Len(result.outputs[t]) : result.outputs[t][f] = "zero"

\* C2: the num_frames entry of output_shape([batch, seq_len]) equals the
\* number of frames (of outputs and of paddings) forward returns on a
\* waveform of length seq_len; the two calls also fail together in framing.
C2_FrameCountConsistent ==
    ForwardDone =>
        LET shp == output_shape(Self, <<Some(1), Some(lastCall.seq_len)>>).ret
        IN  /\ (result.err = "ZeroDivisionError") <=> (shp.err = "ZeroDivisionError")
            /\ ForwardOk =>
                 /\ shp.err = ""
                 /\ shp.shape[2] = Some(Len(result.outputs))
                 /\ Len(result.paddings) = Len(result.outputs)

\* A forward call with pre-emphasis that returned at least two frames.
C2_Witness ==
    /\ ForwardOk
    /\ Self._pre_emphasis
    /\ Len(result.outputs) >= 2

\* The dtype table as the code has it.
Supported == {"bfloat16", "float32", "float64", "int16", "int32", "int64"}
TableOf(d) ==
    CASE d \in {"bfloat16", "float32", "float64"} -> d
      [] d = "int16" -> "bfloat16"
      [] d = "int32" -> "float32"
      [] d = "int64" -> "float64"

\* C3 (as amended): the compute dtype handed to the spectrogram stage follows
\* the table: bfloat16, float32 and float64 map to themselves, int16 to
\* bfloat16, int32 to float32, int64 to float64; every other dtype, the IEEE
\* 16-bit float float16 included, fails with ValueError and yields no output.
C3_DtypeTable ==
    ForwardFramed =>
        IF lastCall.dtype \in Supported
        THEN result.err = "" /\ result.compute = TableOf(lastCall.dtype)
        ELSE result.err = "ValueError" /\ result.compute = ""
             /\ result.outputs = << >>

\* A forward call on float16 frames, rejected as unsupported.
C3_Witness ==
    /\ ForwardFramed
    /\ lastCall.dtype = "float16"
    /\ result.err = "ValueError"

\* C3 (as claimed): every 16-, 32- or 64-bit float maps to itself, a 16-bit
\* integer to a 16-bit float, int32 to float32, int64 to float64, anything
\* else fails.
C3_Original ==
    ForwardFramed =>
        LET d == lastCall.dtype
        IN  CASE d \in {"bfloat16", "float16", "float32", "float64"} ->
                   result.err = "" /\ result.compute = d
              [] d = "int16" ->
                   result.err = "" /\ result.compute \in {"bfloat16", "float16"}
              [] d = "int32" -> result.err = "" /\ result.compute = "float32"
              [] d = "int64" -> result.err = "" /\ result.compute = "float64"
              [] OTHER -> result.err = "ValueError"

\* C4: constructing with output_dim # 1 fails with a configuration error; no
\* frontend with output_dim # 1 exists, and none reaches forward or
\* output_shape.
C4_OutputDimOne ==
    /\ frontend # None => Self.config.output_dim = 1
    /\ (lastCall.op = "__init__" /\ lastCall.cfg.output_dim # 1) =>
           frontend = None /\ result.err = "ValueError"
    /\ lastCall.op \in {"forward", "output_shape"} =>
           frontend # None /\ Self.config.output_dim = 1

\* A construction with output_dim = 2 was attempted and refused.
C4_Witness ==
    /\ lastCall.op = "__init__"
    /\ lastCall.cfg.output_dim = 2
    /\ result.err = "ValueError"
    /\ frontend = None

\* C5: with pre-emphasis the stored frame_size is the nominal frame size plus
\* one and the frames leaving the pre-emphasis stage have the nominal length;
\* without pre-emphasis the stored frame_size is the nominal one.
C5_FrameSizeAccounting ==
    frontend # None =>
        /\ Self._frame_size =
             Nominal(Self.config) + (IF Self.config.pre_emphasis THEN 1 ELSE 0)
        /\ ForwardFramed => result.frame_lens \subseteq {Nominal(Self.config)}

\* A forward call with pre-emphasis whose frames were emitted.
C5_Witness ==
    /\ ForwardOk
    /\ Self.config.pre_emphasis
    /\ Self._frame_size = Nominal(Self.config) + 1
    /\ result.frame_lens = {Nominal(Self.config)}

\* C6: in every constructed frontend the derived frame_size and hop_size are
\* positive (a configuration deriving a non-positive one is refused at
\* construction).
C6_PositiveGeometry ==
    frontend # None => Self._frame_size > 0 /\ Self._hop_size > 0

\* C7: once constructed, no forward or output_shape call, successful or
\* failing, changes the frontend's stored state (frame_size, hop_size, the
\* stages, the configuration).
C7_CallsLeaveStateUnchanged ==
    [][frontend # None => frontend' = frontend]_vars

\* A forward call failed (unsupported dtype) on a constructed frontend.
C7_Witness ==
    /\ frontend # None
    /\ ForwardDone
    /\ result.err = "ValueError"

\* What the frontend derives for the spectrogram config.
Derived(cfg) ==
    [fft_size |-> next_power_of_2(Nominal(cfg)),
     num_filters |-> cfg.num_filters,
     sample_rate |-> cfg.sample_rate,
     mel_floor |-> cfg.mel_floor]

\* C8: each of fft_size, num_filters, sample_rate, mel_floor the caller set on
\* the spectrogram config keeps the caller's value; each one left unset takes
\* the frontend's derived value (fft_size = fft_size_fn(nominal frame_size)).
C8_FillIfAbsent ==
    frontend # None =>
        \A k \in SpectrogramFields :
            Self._spectrogram[k] =
                IF Self.config.spectrogram[k] # None
                THEN Self.config.spectrogram[k]
                ELSE Some(Derived(Self.config)[k])

\* A frontend with pre-emphasis built from a spectrogram config with
\* num_filters preset and fft_size unset.
C8_Witness ==
    /\ frontend # None
    /\ Self.config.pre_emphasis
    /\ Self.config.spectrogram.num_filters # None
    /\ Self.config.spectrogram.fft_size = None
    /\ Self._spectrogram.num_filters = Some(CallerSpectrogram.num_filters)
    /\ Self._spectrogram.fft_size = Some(next_power_of_2(Nominal(Self.config)))

\* C9 (as amended): the direct transform gets a frame tensor whose own dtype
\* is float32 or float64 unchanged and any other frame dtype cast to float32
\* (int64 too, whose compute dtype is float64); a configured transform gets
\* the frame tensor in its own dtype, uncast.
C9_TransformInputDtype ==
    ForwardFramed =>
        result.fft_in =
            IF Self._fft = "rfft"
            THEN (IF lastCall.dtype \in {"float32", "float64"}
                  THEN lastCall.dtype ELSE "float32")
            ELSE lastCall.dtype

\* int64 frames through the direct transform: handed over as float32 while
\* the compute dtype is float64.
C9_Witness ==
    /\ ForwardOk
    /\ Self._fft = "rfft"
    /\ lastCall.dtype = "int64"
    /\ result.fft_in = "float32"
    /\ result.compute = "float64"

\* C9 (as claimed): the direct transform gets the tensor unchanged when the
\* compute dtype is float32 or float64 and cast to float32 otherwise; a
\* configured transform gets it in the compute dtype of the table.
C9_Original ==
    ForwardOk =>
        result.fft_in =
            IF Self._fft = "rfft"
            THEN (IF result.compute \in {"float32", "float64"}
                  THEN result.compute ELSE "float32")
            ELSE result.compute

Range(s) == {s[i] : i \in 1..Len(s)}
Pos(order, x) == CHOOSE i \in 1..Len(order) : order[i] = x
\* trace only holds stages of order, each once, in order's sequence.
FollowsOrder(trace, order) ==
    /\ Range(trace) \subseteq Range(order)
    /\ \A i, j \in 1..Len(trace) :
         i < j => Pos(order, trace[i]) < Pos(order, trace[j])
\* The stages a successful call runs: the optional ones only when configured.
StagesOf(self, order) ==
    Range(order) \ ((IF self._pre_emphasis THEN {} ELSE {"pre_emphasis"})
                    \cup (IF self._output_transformation THEN {}
                          ELSE {"output_transformation"}))

CodeOrder ==
    <<"frame", "frame_paddings", "pre_emphasis", "windowing", "fft",
      "_fft_dtype", "spectrogram", "output_transformation", "mask">>
ClaimedOrder ==
    <<"frame", "frame_paddings", "pre_emphasis", "windowing", "_fft_dtype",
      "fft", "spectrogram", "output_transformation", "mask">>

\* C10 (as amended): the stages run in the order framing, pre-emphasis (if
\* enabled), windowing, spectral transform, dtype negotiation, spectrogram
\* stage, output transformation (if configured), padding mask; a call whose
\* frame dtype is unsupported fails after the spectral transform was invoked
\* and before the spectrogram stage.
C10_StageOrder ==
    ForwardDone =>
        /\ FollowsOrder(result.trace, CodeOrder)
        /\ result.err = "" => Range(result.trace) = StagesOf(Self, CodeOrder)
        /\ result.err = "ValueError" =>
             /\ "fft" \in Range(result.trace)
             /\ result.trace[Len(result.trace)] = "_fft_dtype"

\* A call on an unsupported dtype: the transform ran, then the call failed.
C10_Witness ==
    /\ ForwardDone
    /\ result.err = "ValueError"
    /\ result.fft_in # ""
    /\ "fft" \in Range(result.trace)
    /\ "spectrogram" \notin Range(result.trace)

\* C10 (as claimed): dtype negotiation precedes the spectral transform, and a
\* call whose frame dtype is unsupported fails without the transform invoked.
C10_Original ==
    ForwardDone =>
        /\ FollowsOrder(result.trace, ClaimedOrder)
        /\ result.err = "" => Range(result.trace) = StagesOf(Self, ClaimedOrder)
        /\ result.err = "ValueError" => "fft" \notin Range(result.trace)
====
